---- MODULE Spec2Model ----
(***************************************************************************)
(* A model of the Douban Top250 scraper (src/main.py, src/config.py):      *)
(* the fetcher DoubanScraper._get_page, the record parser _parse_movie,    *)
(* the page loop scrape and the cleaning pass save_data.                   *)
(*                                                                         *)
(* Text is modelled as a sequence of one-character strings.  The module    *)
(* is written in ASCII, so the CJK characters of the source are written    *)
(* with stand-in letters:                                                  *)
(*    "C" "N"      for the two characters of the allow-list keyword        *)
(*                 (config.py line 25), so <<"C","N","H">> is a longer     *)
(*                 country name that contains the keyword;                 *)
(*    "W" "B" "T"  for the three characters of the title placeholder       *)
(*                 (main.py line 177);                                     *)
(*    "r" "p" "j"  for the three characters of the vote-count label        *)
(*                 (main.py lines 243-245).                                *)
(* The director column (main.py lines 189-207, 235) is left out of the     *)
(* record: it is computed by regular-expression calls that cannot raise    *)
(* and no branch reads it.                                                 *)
(***************************************************************************)
EXTENDS Integers, Sequences, FiniteSets

VARIABLES
    pc,             \* position of the running call
    start,          \* scrape: the page offset of the loop (main.py line 276)
    visited,        \* history: the offsets the loop has started, in order
    retry,          \* _get_page: the retry parameter of the current call
    responses,      \* history: what each request of the current call met
    soup,           \* what _get_page returned (None or a Document)
    items_left,     \* scrape: fragments of the page not yet parsed
    item,           \* the fragment last given to _parse_movie
    movie_data,     \* first component of _parse_movie's result
    is_filtered,    \* second component of _parse_movie's result
    movies,         \* scrape: the accepted sequence
    seen_titles,    \* scrape: the dedup set
    filtered_count, \* scrape: the filtered counter
    parse_failures, \* scrape: "parse failed" warnings logged (line 298)
    country_filter, \* the configured allow-list read by _parse_movie
    now_year,       \* save_data: pd.Timestamp.now().year when it ran
    df              \* save_data: the rows handed to to_csv

vars == <<pc, start, visited, retry, responses, soup, items_left, item,
          movie_data, is_filtered, movies, seen_titles, filtered_count,
          parse_failures, country_filter, now_year, df>>

(***************************************************************************)
(* Configuration (src/config.py).                                          *)
(***************************************************************************)
MAX_RETRIES == 3

MIN_YEAR == 1900

MAX_ITEMS == 250

ITEMS_PER_PAGE == 25

COUNTRY_FILTER == << <<"C", "N">> >>

(***************************************************************************)
(* Bounds of the model.                                                    *)
(***************************************************************************)
\* fragments on one fetched page
MaxPageItems == 2

\* length of the second metadata line in the parser's inputs
MaxLineLen == 6

\* length of the list given to save_data in the cleaning pass's inputs
MaxMovies == 3

\* Python's None, as a return value
None == [kind |-> "None"]

\* find() returned None: no such element (a text is a sequence of
\* one-character strings, so no text equals it)
NoTag == <<"NoTag">>

\* info.find('p') returned None (a paragraph is a sequence of texts)
NoP == <<NoTag>>

(***************************************************************************)
(* Python string operations used by the source.                            *)
(***************************************************************************)
Digits == {"0", "1", "2", "3", "4", "5", "6", "7", "8", "9"}

DigitValue(c) ==
    CASE c = "0" -> 0 [] c = "1" -> 1 [] c = "2" -> 2 [] c = "3" -> 3
      [] c = "4" -> 4 [] c = "5" -> 5 [] c = "6" -> 6 [] c = "7" -> 7
      [] c = "8" -> 8 [] c = "9" -> 9

\* str.strip(): leading and trailing whitespace removed
strip(s) ==
    LET solid == {i \in 1..Len(s) : s[i] # " "}
    IN  IF solid = {} THEN <<>>
        ELSE SubSeq(s, CHOOSE i \in solid : \A j \in solid : i <= j,
                       CHOOSE i \in solid : \A j \in solid : i >= j)

\* s.split(sep)[0]: the text before the first separator
split_first(s, sep) ==
    LET at == {i \in 1..Len(s) : s[i] = sep}
    IN  IF at = {} THEN s
        ELSE SubSeq(s, 1, (CHOOSE i \in at : \A j \in at : i <= j) - 1)

\* needle in hay, for strings
contains(hay, needle) ==
    \E i \in 1..(Len(hay) + 1) :
        /\ i + Len(needle) - 1 <= Len(hay)
        /\ SubSeq(hay, i, i + Len(needle) - 1) = needle

\* str.isdigit()
isdigit(s) == s # <<>> /\ \A i \in 1..Len(s) : s[i] \in Digits

\* int(s) of a string of decimal digits
RECURSIVE int(_)
int(s) ==
    IF s = <<>> THEN 0
    ELSE 10 * int(SubSeq(s, 1, Len(s) - 1)) + DigitValue(s[Len(s)])

\* ''.join(parts)
RECURSIVE join(_)
join(parts) ==
    IF parts = <<>> THEN <<>> ELSE Head(parts) \o join(Tail(parts))

(***************************************************************************)
(* The fetcher: DoubanScraper._get_page (main.py lines 127-163).           *)
(* A request either raises a network/timeout error or returns a response   *)
(* with a status code and a final URL (a sequence of URL components).      *)
(***************************************************************************)
NetworkError == [kind |-> "error"]

TOP250_URL == <<"https://", "movie.douban.com", "/top250">>

LOGIN_URL == <<"https://", "accounts.douban.com", "/passport/login">>

StatusCodes == {200, 304, 404}

Outcomes ==
    {NetworkError} \cup
    [kind : {"response"}, status_code : StatusCodes, url : {TOP250_URL, LOGIN_URL}]

\* response.raise_for_status() raises HTTPError (line 150)
raise_for_status(o) == 400 <= o.status_code /\ o.status_code < 600

\* a faulty variant: the resolved URL is not looked at
anti_crawl_Unchecked(o) == FALSE

\* 'accounts.douban.com' in response.url (line 153)
anti_crawl(o) == \E i \in 1..Len(o.url) : o.url[i] = "accounts.douban.com"

\* the attempt ends in the except clause of line 158
RaisesRequestException(o) ==
    \/ o.kind = "error"
    \/ o.kind = "response" /\ (raise_for_status(o) \/ anti_crawl(o))

\* BeautifulSoup(response.text, 'html.parser') (line 156)
Document(o) == [kind |-> "Document", url |-> o.url]

(***************************************************************************)
(* The record parser: DoubanScraper._parse_movie (main.py lines 165-260).  *)
(* A fragment (item) is                                                    *)
(*    title_tag   the text of span.title, or NoTag                         *)
(*    bd          whether div.bd is present                                *)
(*    p           the stripped, non-empty text nodes of the first <p> of   *)
(*                div.bd in document order, or NoP                         *)
(*    rating_tag  the text of span.rating_num, or NoTag                    *)
(*    num_tag     the text of the span matching the vote-count label, or   *)
(*                NoTag                                                    *)
(***************************************************************************)
PLACEHOLDER == <<"W", "B", "T">>

\* lines 176-178
title_of(it) ==
    LET title == IF it.title_tag # NoTag THEN strip(it.title_tag)
                 ELSE PLACEHOLDER
    IN  strip(split_first(title, "/"))

\* director_p.get_text(strip=True) (line 188)
director_text_of(it) == join(it.p)

\* re.search(r'\d{4}', director_text), '' when there is none (lines 210-211)
year_of(text) ==
    LET runs == {i \in 1..(Len(text) - 3) :
                    \A k \in 0..3 : text[i + k] \in Digits}
    IN  IF runs = {} THEN <<>>
        ELSE LET i == CHOOSE i \in runs : \A j \in runs : i <= j
             IN  SubSeq(text, i, i + 3)

\* director_p.get_text('\n', strip=True).split('\n') (lines 214-216)
lines_of(it) == IF it.p = <<>> THEN << <<>> >> ELSE it.p

\* re.findall(r'/\s*([^/\n]+?)\s*/', country_line) scanning from pos
\* (line 220): matches do not overlap, each one consumes its closing '/'
RECURSIVE findall_from(_, _)
findall_from(line, pos) ==
    LET opens == {i \in pos..Len(line) : line[i] = "/"}
    IN  IF opens = {} THEN <<>>
        ELSE
          LET i == CHOOSE i \in opens : \A k \in opens : i <= k
              closes == {j \in (i + 1)..Len(line) : line[j] = "/"}
          IN  IF closes = {} THEN <<>>
              ELSE
                LET j == CHOOSE j \in closes : \A k \in closes : j <= k
                    inner == SubSeq(line, i + 1, j - 1)
                IN  IF inner = <<>> THEN findall_from(line, j)
                    ELSE <<(IF strip(inner) = <<>> THEN <<" ">>
                            ELSE strip(inner))>>
                         \o findall_from(line, j + 1)

country_matches_of(country_line) == findall_from(country_line, 1)

\* COUNTRY_FILTER and not any(keyword in country ...) (lines 224-226)
\* with allow the value of COUNTRY_FILTER
country_rejected(country, allow) ==
    /\ allow # <<>>
    /\ ~ \E k \in 1..Len(allow) : contains(country, allow[k])

\* the two `return None, True` of lines 217-232 are taken
country_filtered(it, allow) ==
    LET lines == lines_of(it)
    IN  /\ Len(lines) > 1
        /\ LET country_matches == country_matches_of(lines[2])
           IN  IF country_matches # <<>>
               THEN country_rejected(strip(country_matches[Len(country_matches)]), allow)
               ELSE TRUE

\* float(s) accepts s (decimal literals only; the inputs hold no other form)
is_float(s) ==
    /\ \A i \in 1..Len(s) : s[i] \in Digits \cup {"."}
    /\ Cardinality({i \in 1..Len(s) : s[i] = "."}) <= 1
    /\ \E i \in 1..Len(s) : s[i] \in Digits

\* float(s), in tenths (the inputs hold at most one fractional digit)
float_tenths(s) ==
    LET whole == split_first(s, ".")
        frac == SubSeq(s, Len(whole) + 2, Len(s))
    IN  10 * int(whole) + (IF frac = <<>> THEN 0 ELSE DigitValue(frac[1]))

\* float(rating_tag.text.strip()) raises ValueError (line 240)
rating_raises(it) == it.rating_tag # NoTag /\ ~ is_float(strip(it.rating_tag))

rating_of(it) ==
    IF it.rating_tag # NoTag THEN float_tenths(strip(it.rating_tag)) ELSE 0

\* re.sub(r'[...,]', '', s): the label characters and commas removed
RECURSIVE sub_label(_)
sub_label(s) ==
    IF s = <<>> THEN <<>>
    ELSE IF Head(s) \in {"r", "p", "j", ","} THEN sub_label(Tail(s))
    ELSE <<Head(s)>> \o sub_label(Tail(s))

\* lines 243-248
num_of(it) ==
    IF it.num_tag # NoTag
    THEN LET num_str == sub_label(strip(it.num_tag))
         IN  IF isdigit(num_str) THEN int(num_str) ELSE 0
    ELSE 0

\* the result of the early returns of lines 183, 228, 232 and of the
\* except clause of line 260
NoneTrue == [movie_data |-> None, is_filtered |-> TRUE]

\* the dictionary of lines 250-256 (without the director column)
parsed_movie(it) ==
    [movie_data |->
        [title  |-> title_of(it),
         year   |-> IF it.p # NoP THEN year_of(director_text_of(it)) ELSE <<>>,
         rating |-> rating_of(it),
         num    |-> num_of(it)],
     is_filtered |-> FALSE]

\* what the except clause of lines 258-260 returns
parse_exception(it) == NoneTrue

\* what the missing div.bd returns (lines 181-183)
missing_info(it) == NoneTrue

\* _parse_movie(item) when COUNTRY_FILTER is allow
_parse_movie(it, allow) ==
    IF ~ it.bd THEN missing_info(it)
    ELSE IF it.p # NoP /\ country_filtered(it, allow) THEN NoneTrue
    ELSE IF rating_raises(it) THEN parse_exception(it)
    ELSE parsed_movie(it)

(***************************************************************************)
(* One request of _get_page called with retry = r, meeting outcome o       *)
(* (lines 138-163): the except clause either recurses with r + 1 or        *)
(* returns None; a response that raises nothing returns the Document.      *)
(***************************************************************************)
\* a faulty variant: the retry bound is compared with <=, one retry too many
_get_page_OneRetryMore(o, r) ==
    IF RaisesRequestException(o)
    THEN IF r <= MAX_RETRIES
         THEN [returned |-> FALSE, retry |-> r + 1, soup |-> None]
         ELSE [returned |-> TRUE, retry |-> r, soup |-> None]
    ELSE [returned |-> TRUE, retry |-> r, soup |-> Document(o)]

_get_page(o, r) ==
    IF RaisesRequestException(o)
    THEN IF r < MAX_RETRIES
         THEN [returned |-> FALSE, retry |-> r + 1, soup |-> None]
         ELSE [returned |-> TRUE, retry |-> r, soup |-> None]
    ELSE [returned |-> TRUE, retry |-> r, soup |-> Document(o)]

(***************************************************************************)
(* The page loop: DoubanScraper.scrape (main.py lines 262-303).            *)
(***************************************************************************)
\* a faulty variant: the dedup check is left out, every parsed record is appended
scrape_item_NoDedup(r, ms, seen, filtered, failures) ==
    IF r.movie_data # None
    THEN [movies |-> Append(ms, r.movie_data),
          seen_titles |-> seen \cup {r.movie_data.title},
          filtered_count |-> filtered, parse_failures |-> failures]
    ELSE [movies |-> ms, seen_titles |-> seen,
          filtered_count |-> filtered + 1, parse_failures |-> failures]

\* the body of the item loop after _parse_movie returned r (lines 287-300)
scrape_item(r, ms, seen, filtered, failures) ==
    IF r.movie_data # None
    THEN IF r.movie_data.title \in seen
         THEN [movies |-> ms, seen_titles |-> seen,
               filtered_count |-> filtered + 1, parse_failures |-> failures]
         ELSE [movies |-> Append(ms, r.movie_data),
               seen_titles |-> seen \cup {r.movie_data.title},
               filtered_count |-> filtered, parse_failures |-> failures]
    ELSE IF ~ r.is_filtered
         THEN [movies |-> ms, seen_titles |-> seen,
               filtered_count |-> filtered, parse_failures |-> failures + 1]
         ELSE [movies |-> ms, seen_titles |-> seen,
               filtered_count |-> filtered + 1, parse_failures |-> failures]

\* a faulty variant: the loop steps over every other page
next_start_SkipsPage(s) == s + 2 * ITEMS_PER_PAGE

\* the next value of range(0, MAX_ITEMS, ITEMS_PER_PAGE) after s (line 276)
next_start(s) == s + ITEMS_PER_PAGE

\* the for statement of line 276 takes its next offset, or the loop ends
LoopNext ==
    /\ retry' = 0
    /\ IF next_start(start) < MAX_ITEMS
       THEN /\ start' = next_start(start)
            /\ visited' = Append(visited, next_start(start))
            /\ pc' = "get_page"
       ELSE /\ pc' = "done"
            /\ UNCHANGED <<start, visited>>

(***************************************************************************)
(* The fragments the pages of the page loop are made of.                   *)
(***************************************************************************)
Fragment(title_tag, bd, p, rating_tag) ==
    [title_tag |-> title_tag, bd |-> bd, p |-> p, rating_tag |-> rating_tag,
     num_tag |-> <<"1", ",", "2", "r", "p", "j">>]

P_CN_1994 == << <<"d">>, <<"1", "9", "9", "4", " ", "/", " ", "C", "N", " ", "/", " ", "x">> >>

P_CNH_1899 == << <<"d">>, <<"1", "8", "9", "9", "/", "C", "N", "H", "/", "x">> >>

P_U_1994 == << <<"d">>, <<"1", "9", "9", "4", " ", "/", " ", "U", " ", "/", " ", "x">> >>

GoodRating == <<"9", ".", "7">>

ScrapeItems ==
    { Fragment(<<"a">>, TRUE, P_CN_1994, GoodRating),
      Fragment(<<"a", " ", "/", " ", "b">>, TRUE, P_CN_1994, GoodRating),
      Fragment(<<>>, TRUE, P_CN_1994, GoodRating),
      Fragment(NoTag, TRUE, NoP, NoTag),
      Fragment(<<"a">>, TRUE, P_U_1994, GoodRating),
      Fragment(<<"a">>, FALSE, NoP, GoodRating),
      Fragment(<<"a">>, TRUE, P_CN_1994, <<"-">>) }

\* _parse_movie on each of them, under the configured COUNTRY_FILTER
parse_scraped == [it \in ScrapeItems |-> _parse_movie(it, COUNTRY_FILTER)]

(***************************************************************************)
(* The cleaning pass: DoubanScraper.save_data (main.py lines 305-328).     *)
(***************************************************************************)
\* the missing value pd.to_numeric(errors='coerce') gives (no year is < 0)
NaN == -1

\* pd.to_numeric(s, errors='coerce') of a string (lines 318, 320)
to_numeric(s) == IF isdigit(s) THEN int(s) ELSE NaN

\* a faulty variant: the upper end of the range is not checked
between_NoUpper(x, lo, hi) == x # NaN /\ lo <= x

\* Series.between(lo, hi): inclusive on both sides, False for NaN
between(x, lo, hi) == x # NaN /\ lo <= x /\ x <= hi

\* df.drop_duplicates(subset=[title], keep='first') (line 326)
RECURSIVE drop_duplicates(_, _)
drop_duplicates(rows, seen) ==
    IF rows = <<>> THEN <<>>
    ELSE IF Head(rows).title \in seen THEN drop_duplicates(Tail(rows), seen)
    ELSE <<Head(rows)>> \o drop_duplicates(Tail(rows), seen \cup {Head(rows).title})

\* pd.DataFrame(movies) with df.index += 1 (lines 314-315): label i on row i
data_frame(ms) ==
    [i \in 1..Len(ms) |->
        [index |-> i, title |-> ms[i].title, year |-> to_numeric(ms[i].year),
         rating |-> ms[i].rating, num |-> ms[i].num]]

\* the rows save_data writes when the clock reads year y (lines 314-327)
save_data(ms, y) ==
    LET in_range(row) == between(row.year, MIN_YEAR, y)
    IN  drop_duplicates(SelectSeq(data_frame(ms), in_range), {})

\* what pd.Timestamp.now().year may read
CurrentYears == {2025, 2026}

(***************************************************************************)
(* Actions.                                                                *)
(***************************************************************************)
\* scrape, lines 280-284: one request of self._get_page(top250_url, ...);
\* when the call returns, `if not soup: continue`, else soup.find_all
FetchPage ==
    /\ pc = "get_page"
    /\ \E o \in Outcomes :
         LET a == _get_page(o, retry)
         IN  IF ~ a.returned
             THEN /\ retry' = a.retry
                  /\ UNCHANGED <<pc, start, visited, soup, items_left>>
             ELSE /\ soup' = a.soup
                  /\ IF a.soup = None
                     THEN LoopNext /\ UNCHANGED items_left
                     ELSE \E n \in 0..MaxPageItems :
                            /\ items_left' = n
                            /\ IF n = 0 THEN LoopNext
                               ELSE /\ pc' = "parse_movie"
                                    /\ UNCHANGED <<start, visited, retry>>
    /\ UNCHANGED <<responses, item, movie_data, is_filtered, movies,
                   seen_titles, filtered_count, parse_failures,
                   country_filter, now_year, df>>

\* scrape, lines 285-300: one pass of the item loop
ParseItem ==
    /\ pc = "parse_movie"
    /\ items_left > 0
    /\ \E it \in ScrapeItems :
         LET r == parse_scraped[it]
             s == scrape_item(r, movies, seen_titles, filtered_count,
                              parse_failures)
         IN  /\ item' = it
             /\ movie_data' = r.movie_data
             /\ is_filtered' = r.is_filtered
             /\ movies' = s.movies
             /\ seen_titles' = s.seen_titles
             /\ filtered_count' = s.filtered_count
             /\ parse_failures' = s.parse_failures
    /\ items_left' = items_left - 1
    /\ IF items_left = 1 THEN LoopNext
       ELSE UNCHANGED <<pc, start, visited, retry>>
    /\ UNCHANGED <<responses, soup, country_filter, now_year, df>>

\* __main__, lines 381-382: `if movies: scraper.save_data(movies)`
SaveData ==
    /\ pc = "done"
    /\ movies # <<>>
    /\ \E y \in CurrentYears :
         /\ now_year' = y
         /\ df' = save_data(movies, y)
    /\ pc' = "saved"
    /\ UNCHANGED <<start, visited, retry, responses, soup, items_left, item,
                   movie_data, is_filtered, movies, seen_titles,
                   filtered_count, parse_failures, country_filter>>

Init ==
    /\ pc = "get_page"
    /\ start = 0
    /\ visited = <<0>>
    /\ retry = 0
    /\ responses = <<>>
    /\ soup = None
    /\ items_left = 0
    /\ item = None
    /\ movie_data = None
    /\ is_filtered = FALSE
    /\ movies = <<>>
    /\ seen_titles = {}
    /\ filtered_count = 0
    /\ parse_failures = 0
    /\ country_filter = COUNTRY_FILTER
    /\ now_year = 0
    /\ df = <<>>

Next == FetchPage \/ ParseItem \/ SaveData

\* the whole program: scrape, then save_data
Spec == Init /\ [][Next]_vars

\* the program runs on: Python executes the next statement
FairSpec == Spec /\ WF_vars(Next)

(***************************************************************************)
(* The fetcher on its own: one call _get_page(url, params) with retry = 0, *)
(* every request meeting any outcome, the outcomes met recorded in         *)
(* responses.                                                              *)
(***************************************************************************)
GetPage ==
    /\ pc = "get_page"
    /\ \E o \in Outcomes :
         LET a == _get_page(o, retry)
         IN  /\ responses' = Append(responses, o)
             /\ retry' = a.retry
             /\ IF a.returned
                THEN soup' = a.soup /\ pc' = "returned"
                ELSE UNCHANGED <<soup, pc>>
    /\ UNCHANGED <<start, visited, items_left, item, movie_data, is_filtered,
                   movies, seen_titles, filtered_count, parse_failures,
                   country_filter, now_year, df>>

SpecFetch == Init /\ [][GetPage]_vars

(***************************************************************************)
(* The parser on its own: _parse_movie(item) for any fragment of           *)
(* ParseItems under any allow-list of Filters.                             *)
(***************************************************************************)
LineAlphabet == {"/", " ", "C", "N"}

\* every text over LineAlphabet of at most MaxLineLen characters
CountryLines == UNION {[1..n -> LineAlphabet] : n \in 0..MaxLineLen}

TitleTags ==
    {NoTag, <<>>, <<" ">>, <<"a">>, <<" ", "a", " ">>, <<"/", "a">>,
     <<"a", " ", "/", " ", "b">>}

RatingTags == {NoTag, GoodRating, <<>>, <<"-">>}

P_Empty == <<>>

P_OneLine == << <<"d">> >>

P_YearAcrossNodes == << <<"d", "1", "9">>, <<"9", "4", "/", "C", "N", "/">> >>

ParseItems ==
    {Fragment(<<"a">>, TRUE, << <<"1", "9", "9", "4">>, l >>, GoodRating) :
        l \in CountryLines \ {<<>>}}
    \cup
    {Fragment(t[1], t[2], t[3], t[4]) :
        t \in TitleTags \X BOOLEAN
              \X {NoP, P_Empty, P_OneLine, P_CN_1994, P_CNH_1899, P_U_1994,
                  P_YearAcrossNodes}
              \X RatingTags}

Filters == { <<>>, COUNTRY_FILTER, << <<"N", "C">>, <<"C", "N">> >> }

InitParse ==
    /\ pc = "parse_movie"
    /\ item \in ParseItems
    /\ country_filter \in Filters
    /\ start = 0
    /\ visited = <<>>
    /\ retry = 0
    /\ responses = <<>>
    /\ soup = None
    /\ items_left = 0
    /\ movie_data = None
    /\ is_filtered = FALSE
    /\ movies = <<>>
    /\ seen_titles = {}
    /\ filtered_count = 0
    /\ parse_failures = 0
    /\ now_year = 0
    /\ df = <<>>

ParseMovie ==
    /\ pc = "parse_movie"
    /\ LET r == _parse_movie(item, country_filter)
       IN  /\ movie_data' = r.movie_data
           /\ is_filtered' = r.is_filtered
    /\ pc' = "parse_returned"
    /\ UNCHANGED <<start, visited, retry, responses, soup, items_left, item,
                   movies, seen_titles, filtered_count, parse_failures,
                   country_filter, now_year, df>>

SpecParse == InitParse /\ [][ParseMovie]_vars

(***************************************************************************)
(* The cleaning pass on its own: save_data(movies) for any non-empty list  *)
(* of at most MaxMovies records.                                           *)
(***************************************************************************)
YearTexts ==
    { <<>>, <<"1", "8", "9", "9">>, <<"1", "9", "0", "0">>,
      <<"2", "0", "2", "5">>, <<"2", "0", "2", "6">>, <<"2", "0", "2", "7">>,
      <<"n", "/", "a">> }

SaveRecords ==
    [title : {<<"a">>, <<"b">>}, year : YearTexts, rating : {97}, num : {12}]

InitSave ==
    /\ pc = "done"
    /\ movies \in UNION {[1..n -> SaveRecords] : n \in 1..MaxMovies}
    /\ start = 0
    /\ visited = <<>>
    /\ retry = 0
    /\ responses = <<>>
    /\ soup = None
    /\ items_left = 0
    /\ item = None
    /\ movie_data = None
    /\ is_filtered = FALSE
    /\ seen_titles = {}
    /\ filtered_count = 0
    /\ parse_failures = 0
    /\ country_filter = COUNTRY_FILTER
    /\ now_year = 0
    /\ df = <<>>

SpecSave == InitSave /\ [][SaveData]_vars

(***************************************************************************)
(* The claims.                                                             *)
(***************************************************************************)
IsPrefix(a, b) == Len(a) <= Len(b) /\ SubSeq(b, 1, Len(a)) = a

Last(q) == q[Len(q)]

\* a request failed with a network/timeout error, a 4xx/5xx status or a
\* redirect to the challenge host
C1_Failure(o) ==
    \/ o.kind = "error"
    \/ o.kind = "response" /\ o.status_code \in 400..599
    \/ o.kind = "response" /\ o.url = LOGIN_URL

\* a request failed in the sense of the claim as written: any status
\* outside 2xx counts as a failure
C1_FailureAsWritten(o) ==
    \/ o.kind = "error"
    \/ o.kind = "response" /\ o.status_code \notin 200..299
    \/ o.kind = "response" /\ o.url = LOGIN_URL

\* C1 as written: when a call of _get_page(retry=0) has returned, if every
\* request failed (network error, non-2xx status or soft-block redirect)
\* then exactly MAX_RETRIES + 1 requests were made and None was returned,
\* and if the first request did not fail, it was the only one.
C1_AsWritten ==
    pc = "returned" =>
        /\ (\A i \in 1..Len(responses) : C1_FailureAsWritten(responses[i]))
              => Len(responses) = MAX_RETRIES + 1 /\ soup = None
        /\ ~ C1_FailureAsWritten(responses[1])
              => Len(responses) = 1 /\ retry = 0 /\ soup # None

\* C1, amended: the same with "4xx/5xx status" for "non-2xx status": when
\* a call of _get_page(retry=0) has returned, if every request failed with
\* a network/timeout error, a 4xx/5xx status or a soft-block redirect then
\* exactly MAX_RETRIES retries were made (MAX_RETRIES + 1 requests) and the
\* call returned None; if the first request succeeded, no retry was made.
C1_RetriesExactlyMaxRetries ==
    pc = "returned" =>
        /\ (\A i \in 1..Len(responses) : C1_Failure(responses[i]))
              => /\ Len(responses) = MAX_RETRIES + 1
                 /\ retry = MAX_RETRIES
                 /\ soup = None
        /\ ~ C1_Failure(responses[1])
              => Len(responses) = 1 /\ retry = 0 /\ soup # None

\* a call that made MAX_RETRIES + 1 requests, one of each kind of failure
\* among them, and returned None
C1_Witness ==
    /\ pc = "returned"
    /\ Len(responses) = MAX_RETRIES + 1
    /\ soup = None
    /\ \E i, j, k \in 1..Len(responses) :
          /\ responses[i].kind = "error"
          /\ responses[j].kind = "response" /\ responses[j].status_code = 404
          /\ responses[k].kind = "response" /\ responses[k].url = LOGIN_URL

\* a 2xx response whose resolved URL is on the challenge host
C6_SoftBlock(o) ==
    /\ o.kind = "response"
    /\ o.status_code \in 200..299
    /\ o.url = LOGIN_URL

\* C6: a request answered 2xx from the challenge host is never what
\* _get_page returns as a Document; it uses up one attempt of the retry
\* budget like any failed request (the call goes on with retry one higher,
\* or returns None when the budget is spent), and a call that meets it on
\* every request returns None after MAX_RETRIES + 1 requests.
C6_SoftBlockIsFailure ==
    /\ soup # None => soup.url # LOGIN_URL
    /\ (responses # <<>> /\ C6_SoftBlock(Last(responses))) =>
          \/ pc = "get_page" /\ retry = Len(responses) /\ soup = None
          \/ pc = "returned" /\ Len(responses) = MAX_RETRIES + 1 /\ soup = None
    /\ (pc = "returned" /\ \A i \in 1..Len(responses) : C6_SoftBlock(responses[i]))
          => soup = None /\ Len(responses) = MAX_RETRIES + 1

\* a call that was answered 200 from the challenge host on every request
C6_Witness ==
    /\ pc = "returned"
    /\ soup = None
    /\ \A i \in 1..Len(responses) : C6_SoftBlock(responses[i])

\* the step is one pass of scrape's item loop
ItemStep == items_left' = items_left - 1

TitlesOf(ms) == {ms[i].title : i \in 1..Len(ms)}

\* C2: no two records of the accepted sequence share a title, and a
\* parsed record whose title is already in the accepted sequence is not
\* appended and adds exactly one to the filtered counter.
C2_NoTwoAcceptedShareTitle ==
    [][ /\ \A i, j \in 1..Len(movies') :
              movies'[i].title = movies'[j].title => i = j
        /\ (ItemStep /\ movie_data' # None /\ movie_data'.title \in TitlesOf(movies))
              => movies' = movies /\ filtered_count' = filtered_count + 1
      ]_vars

\* a record parsed on a later page whose title was accepted before: it is
\* not the last accepted record, and it was counted as filtered
C2_Witness ==
    /\ start > 0
    /\ movie_data # None
    /\ movie_data.title \in TitlesOf(movies)
    /\ Last(movies).title # movie_data.title
    /\ filtered_count > 0

\* C3: every record of the accepted sequence has a non-empty title.
C3_AcceptedTitleNonEmpty ==
    \A i \in 1..Len(movies) : movies[i].title # <<>>

\* the fragment reaches the rating conversion and it raises
C_ParseError(it, allow) ==
    /\ it.bd
    /\ ~ (it.p # NoP /\ country_filtered(it, allow))
    /\ rating_raises(it)

\* C4: with an empty allow-list _parse_movie returns the filtered outcome
\* only for a fragment without its metadata block or one whose parsing
\* raised, never because of the country line.
C4_EmptyAllowListNeverFilters ==
    (pc = "parse_returned" /\ country_filter = <<>>) =>
        (movie_data = None => (~ item.bd \/ C_ParseError(item, country_filter)))

\* the country token of the fragment: the last match on the second line
C5_HasToken(it) ==
    /\ it.p # NoP
    /\ Len(lines_of(it)) > 1
    /\ country_matches_of(lines_of(it)[2]) # <<>>

C5_Token(it) == strip(Last(country_matches_of(lines_of(it)[2])))

\* C5: with a non-empty allow-list, a fragment with a metadata block (whose
\* parsing does not raise) is filtered if and only if no country token can
\* be extracted from it, or the token contains no allow-list keyword.
C5_FilteredIffNoMatchingToken ==
    (/\ pc = "parse_returned"
     /\ country_filter # <<>>
     /\ item.bd
     /\ ~ rating_raises(item)) =>
        (movie_data = None <=>
            \/ ~ C5_HasToken(item)
            \/ ~ \E k \in 1..Len(country_filter) :
                    contains(C5_Token(item), country_filter[k]))

\* C7: every row save_data hands to to_csv has MIN_YEAR <= year <=
\* current year, and a record whose year is unset, non-numeric or outside
\* that range has no row.
C7_SavedYearsInRange ==
    pc = "saved" =>
        /\ \A k \in 1..Len(df) : MIN_YEAR <= df[k].year /\ df[k].year <= now_year
        /\ \A i \in 1..Len(movies) :
              (\/ ~ isdigit(movies[i].year)
               \/ int(movies[i].year) < MIN_YEAR
               \/ int(movies[i].year) > now_year)
                 => \A k \in 1..Len(df) : df[k].index # i

\* a cleaning pass that dropped a record without a year, one below
\* MIN_YEAR and one above the current year, and kept a row
C7_Witness ==
    /\ pc = "saved"
    /\ df # <<>>
    /\ \E i \in 1..Len(movies) : movies[i].year = <<>>
    /\ \E i \in 1..Len(movies) :
          isdigit(movies[i].year) /\ int(movies[i].year) > now_year

\* C8: a fragment without its metadata block, and a fragment whose parsing
\* raised, are not counted as filtered: a pass of the item loop over one
\* leaves the filtered counter alone and counts a parse failure, and the
\* parse error is returned as (None, False).
C8_MalformedNotCountedFiltered ==
    [][ (ItemStep /\ (~ item'.bd \/ C_ParseError(item', country_filter)))
            => /\ filtered_count' = filtered_count
               /\ parse_failures' = parse_failures + 1
               /\ (C_ParseError(item', country_filter) => ~ is_filtered')
      ]_vars

\* range(0, MAX_ITEMS, ITEMS_PER_PAGE) as a sequence
AllOffsets ==
    [k \in 1..((MAX_ITEMS + ITEMS_PER_PAGE - 1) \div ITEMS_PER_PAGE)
        |-> (k - 1) * ITEMS_PER_PAGE]

\* C9: scrape terminates; the offsets it starts are 0, ITEMS_PER_PAGE, ...
\* below MAX_ITEMS, each once and in increasing order, all of them when it
\* ends; a page is fetched only when the page before is fully parsed; a
\* failed fetch moves on to the next offset; and the accepted sequence
\* only ever grows at its end.
C9_ScrapeVisitsEveryOffsetOnce ==
    /\ <>(pc \in {"done", "saved"})
    /\ [](IsPrefix(visited, AllOffsets) /\ start = Last(visited))
    /\ [](pc \in {"done", "saved"} => visited = AllOffsets)
    /\ [](pc = "get_page" => items_left = 0)
    /\ [][IsPrefix(movies, movies')]_vars
    /\ [][(pc = "get_page" /\ retry = MAX_RETRIES /\ soup' = None /\ retry' = 0)
             => /\ movies' = movies
                /\ \/ pc' = "get_page" /\ start' = start + ITEMS_PER_PAGE
                   \/ pc' = "done" /\ start + ITEMS_PER_PAGE >= MAX_ITEMS]_vars

\* a finished run whose last page failed to fetch after all its retries,
\* with the records of earlier pages kept
C9_Witness ==
    /\ pc = "done"
    /\ soup = None
    /\ visited = AllOffsets
    /\ movies # <<>>

\* C10: the rows save_data hands to to_csv are in insertion order and are
\* numbered starting at 1.
C10_RowsNumberedFromOne ==
    pc = "saved" =>
        /\ \A k \in 1..Len(df) :
              /\ df[k].title = movies[df[k].index].title
              /\ \A l \in 1..Len(df) : k < l => df[k].index < df[l].index
        /\ df # <<>> => df[1].index = 1

====
